---------------------------- MODULE Spec2Model ----------------------------
(***************************************************************************)
(* A model of package pr (gauss.go, pr.go): the Gaussian classifier and    *)
(* its trainer.                                                            *)
(*                                                                         *)
(* Numbers.  A float64 is modelled by an exact rational <<n, d>> in lowest *)
(* terms with d > 0, or by NaN == <<0, 0>> (the value of 0/0).  Training   *)
(* (SpecTrain) runs on rationals.  Scoring (Spec) runs on integers: every  *)
(* score is measured in units of ln 2, so that math.Log of a power of two  *)
(* is an integer.                                                          *)
(*                                                                         *)
(* Slices are sequences; the element Go calls s[k] is s[k + 1] here.  A    *)
(* dim x dim matrix is the row-major sequence of its dim * dim entries.    *)
(***************************************************************************)
EXTENDS Integers, Sequences, FiniteSets, TLC

\* ------------------------------------------------------------------ bounds

\* Largest feature dimension Dim() the feature source reports.
MaxDim == 2
\* Largest LabelCount().
MaxLabels == 2
\* Largest FeatureCount(label).
MaxCount == 3
\* Largest coordinate of a feature vector.
MaxVal == 1
\* Largest number of samples the whole feature set holds.
MaxSamples == 6

\* --------------------------------------------------------------- rationals

NaN == <<0, 0>>

Abs(n) == IF n < 0 THEN -n ELSE n

RECURSIVE GCD(_, _)
GCD(a, b) == IF b = 0 THEN a ELSE GCD(b, a % b)

\* The rational n/d in lowest terms; n/0 only arises as 0/0.
Rat(n, d) ==
    IF d = 0 THEN NaN
    ELSE LET g == GCD(Abs(n), Abs(d))
             s == IF d < 0 THEN -1 ELSE 1
         IN  <<(s * n) \div g, (s * d) \div g>>

IsNaN(a) == a[2] = 0

Zero == <<0, 1>>

FromInt(n) == <<n, 1>>

RAdd(a, b) ==
    IF IsNaN(a) \/ IsNaN(b) THEN NaN
    ELSE Rat(a[1] * b[2] + b[1] * a[2], a[2] * b[2])

RSub(a, b) ==
    IF IsNaN(a) \/ IsNaN(b) THEN NaN
    ELSE Rat(a[1] * b[2] - b[1] * a[2], a[2] * b[2])

RMul(a, b) ==
    IF IsNaN(a) \/ IsNaN(b) THEN NaN
    ELSE Rat(a[1] * b[1], a[2] * b[2])

\* a / b; in the code b is a sample count, so the only division by zero is 0/0.
RDiv(a, b) ==
    IF IsNaN(a) \/ IsNaN(b) THEN NaN
    ELSE Rat(a[1] * b[2], a[2] * b[1])

\* make([]float64, n)
Zeros(n) == [k \in 1..n |-> Zero]

\* ----------------------------------------------- the linear-algebra library

\* The matrix m (n x n) without row r and column c (both 0-based).
Minor(m, n, r, c) ==
    [p \in 1..((n - 1) * (n - 1)) |->
        LET k  == (p - 1) \div (n - 1)
            l  == (p - 1) % (n - 1)
            kk == IF k < r THEN k ELSE k + 1
            ll == IF l < c THEN l ELSE l + 1
        IN  m[kk * n + ll + 1]]

RECURSIVE DetSum(_, _, _)
RECURSIVE Det(_, _)
\* mat.Det(): the determinant (in exact arithmetic the value LU gives).
Det(m, n) ==
    IF n = 0 THEN FromInt(1)
    ELSE IF n = 1 THEN m[1]
    ELSE DetSum(m, n, n - 1)

DetSum(m, n, c) ==
    LET term == RMul(FromInt(IF c % 2 = 0 THEN 1 ELSE -1),
                     RMul(m[c + 1], Det(Minor(m, n, 0, c), n - 1)))
    IN  IF c = 0 THEN term ELSE RAdd(DetSum(m, n, c - 1), term)

\* mat.Inverse() reports ExceptionSingular when elimination meets a zero
\* pivot, which in exact arithmetic is the case det = 0.  A NaN compares
\* unequal to 0, so a NaN matrix is not reported.
InverseFails(m, n) == Det(m, n) = Zero

\* mat.Inverse() when it succeeds: adj(m) / det(m).
Inverse(m, n) ==
    LET d == Det(m, n)
    IN  [p \in 1..(n * n) |->
            LET k == (p - 1) \div n
                l == (p - 1) % n
            IN  RDiv(RMul(FromInt(IF (k + l) % 2 = 0 THEN 1 ELSE -1),
                          Det(Minor(m, n, l, k), n - 1)),
                     d)]

\* inv.Scale(f)
Scale(m, f) == [p \in DOMAIN m |-> RMul(m[p], f)]

\* ------------------------------------------------------------ program state

VARIABLES
    pc,       \* where the trainer stands: idle, loop, mean, cov, returned, done
    lfs,      \* the feature source: [Dim, LabelCount]
    counts,   \* FeatureCount(l) for the labels read so far (counts[l + 1])
    feat,     \* the samples of the label being read, as the source delivered them
    calls,    \* the FetchFeature calls made for the label being read
    clsfr,    \* the classifier under construction: [Means, Precs, LogCoefs]
    x,        \* the sample buffer (gauss.go:114)
    sigma,    \* the covariance buffer (gauss.go:116)
    mean,     \* the mean slice of the current iteration (gauss.go:118)
    lbl,      \* the loop variable of gauss.go:117
    cnt,      \* gauss.go:120
    i,        \* the loop variable of the sample loops (gauss.go:122, 136)
    ret,      \* what GaussianTrain returned: a *GaussianClassifier
    iface,    \* what GaussianTrainer.Train returned: a Classifier
    gc,       \* a classifier in use: [Means, Precs, LogCoefs, LogPrior]
    op,       \* the method last called on gc
    arg,      \* its arguments: [label, x, priors]
    res,      \* its outcome: [ok, val]; ok is FALSE when the call panicked
    priorCalled \* whether SetPrior has been called on gc

\* The trainer's variables.
tvars == <<pc, lfs, counts, feat, calls, clsfr, x, sigma, mean, lbl, cnt, i,
           ret, iface>>

\* The variables of a classifier in use.
cvars == <<gc, op, arg, res, priorCalled>>

vars == <<tvars, cvars>>

\* ------------------------------------------------------- the feature source

\* The vectors a source of dimension d may deliver: coordinates in 0..MaxVal,
\* at most one of them non-zero.
Vectors(d) ==
    {v \in [1..d -> 0..MaxVal] : Cardinality({k \in 1..d : v[k] # 0}) <= 1}

\* FetchFeature fills the buffer with a sample: float64 coordinates.
Feature(v) == [k \in DOMAIN v |-> FromInt(v[k])]

RECURSIVE SumSeq(_)
SumSeq(s) == IF s = <<>> THEN 0 ELSE Head(s) + SumSeq(Tail(s))

\* The sample counts a source may report for the next label.
FeatureCounts == 0..(IF MaxSamples - SumSeq(counts) < MaxCount
                     THEN MaxSamples - SumSeq(counts) ELSE MaxCount)

\* ------------------------------------------------------------ pointers

\* A *GaussianClassifier: nil, or the address of the struct built at
\* gauss.go:108.
NilPtr == "nil"

ClsfrPtr == "&clsfr"

\* A Classifier interface value: a dynamic type and a pointer.  The nil
\* interface has no dynamic type.
NilInterface == [typ |-> "none", ptr |-> NilPtr]

\* The conversion of a *GaussianClassifier to Classifier at the return of
\* GaussianTrainer.Train: the dynamic type is set whatever the pointer is.
ToClassifier(p) == [typ |-> "*GaussianClassifier", ptr |-> p]

\* ------------------------------------------------------- GaussianTrain

\* The float64 that make([]float64, n) holds, as a log coefficient.
ZeroCoef == [k |-> 0, det |-> FromInt(1)]

\* -0.5 * (math.Log(2*math.Pi)*float64(dim) + math.Log(det)), kept as the
\* pair of its arguments: the expression is a function of (dim, det).
LogCoef(d, det) == [k |-> d, det |-> det]

\* gauss.go:108-112
NewClassifier(n) ==
    [Means    |-> [l \in 1..n |-> <<>>],
     Precs    |-> [l \in 1..n |-> <<>>],
     LogCoefs |-> [l \in 1..n |-> ZeroCoef]]

\* A classifier nobody calls, and no call.
NoClassifier ==
    /\ gc = [Means |-> <<>>, Precs |-> <<>>, LogCoefs |-> <<>>,
             LogPrior |-> [nil |-> TRUE, v |-> <<>>]]
    /\ op = "none"
    /\ arg = [label |-> 0, x |-> <<>>, priors |-> <<>>]
    /\ res = [ok |-> TRUE, val |-> 0]
    /\ priorCalled = FALSE

\* A feature source and a trainer that has not been called.
InitTrain ==
    /\ NoClassifier
    /\ pc = "idle"
    /\ lfs \in [Dim : 1..MaxDim, LabelCount : 0..MaxLabels]
    /\ counts = <<>>
    /\ feat = <<>>
    /\ calls = <<>>
    /\ clsfr = NewClassifier(0)
    /\ x = <<>>
    /\ sigma = <<>>
    /\ mean = <<>>
    /\ lbl = 0
    /\ cnt = 0
    /\ i = 0
    /\ ret = NilPtr
    /\ iface = NilInterface

\* gauss.go:105-116: the allocations before the label loop.
Enter ==
    /\ pc = "idle"
    /\ pc' = "loop"
    /\ clsfr' = NewClassifier(lfs.LabelCount)
    /\ x' = Zeros(lfs.Dim)
    /\ sigma' = Zeros(lfs.Dim * lfs.Dim)
    /\ lbl' = 0
    /\ UNCHANGED <<lfs, counts, feat, calls, mean, cnt, i, ret, iface, cvars>>

\* gauss.go:117-120: the next label; a fresh mean and FeatureCount(lbl).
NextLabel ==
    /\ pc = "loop"
    /\ lbl < Len(clsfr.Means)
    /\ \E c \in FeatureCounts :
          /\ cnt' = c
          /\ counts' = Append(counts, c)
    /\ mean' = Zeros(lfs.Dim)
    /\ feat' = <<>>
    /\ calls' = <<>>
    /\ i' = 0
    /\ pc' = "mean"
    /\ UNCHANGED <<lfs, clsfr, x, sigma, lbl, ret, iface, cvars>>

\* A sample loop that runs one round too many (i <= cnt).
MoreSamplesInclusive(n, c) == n <= c

\* The condition of the sample loops, gauss.go:122 and 136.
MoreSamples(n, c) == n < c

\* A FetchFeature(label, index, buffer) call, as the source sees it.
FetchCall(pass, label, index, buf) ==
    [pass |-> pass, label |-> label, index |-> index, len |-> Len(buf)]

\* gauss.go:124-126
AddTo(m, v) == [k \in DOMAIN m |-> RAdd(m[k], v[k])]

\* gauss.go:122-127: one round of the first pass.
FetchMean ==
    /\ pc = "mean"
    /\ MoreSamples(i, cnt)
    /\ \E v \in Vectors(lfs.Dim) :
          /\ x' = Feature(v)
          /\ feat' = Append(feat, Feature(v))
    /\ calls' = Append(calls, FetchCall("mean", lbl, i, x))
    /\ mean' = AddTo(mean, x')
    /\ i' = i + 1
    /\ UNCHANGED <<pc, lfs, counts, clsfr, sigma, lbl, cnt, ret, iface, cvars>>

\* gauss.go:129-131
DivideBy(m, c) == [k \in DOMAIN m |-> RDiv(m[k], FromInt(c))]

\* The covariance buffer left as the previous label filled it.
SigmaKeep(s) == s

\* gauss.go:133-135
SigmaReset(s) == [p \in DOMAIN s |-> Zero]

\* gauss.go:129-135: the end of the first pass.
MeanDone ==
    /\ pc = "mean"
    /\ ~MoreSamples(i, cnt)
    /\ mean' = DivideBy(mean, cnt)
    /\ sigma' = SigmaReset(sigma)
    /\ i' = 0
    /\ pc' = "cov"
    /\ UNCHANGED <<lfs, counts, feat, calls, clsfr, x, lbl, cnt, ret, iface, cvars>>

\* gauss.go:138-142: the upper triangle gains the sample's products.
Accumulate(s, d, v, m) ==
    [p \in DOMAIN s |->
        LET k == (p - 1) \div d
            l == (p - 1) % d
        IN  IF l >= k
            THEN RAdd(s[p], RMul(RSub(v[k + 1], m[k + 1]), RSub(v[l + 1], m[l + 1])))
            ELSE s[p]]

\* gauss.go:136-143: one round of the second pass; the source delivers the
\* sample it delivered in the first.
FetchCov ==
    /\ pc = "cov"
    /\ MoreSamples(i, cnt)
    /\ x' = feat[i + 1]
    /\ calls' = Append(calls, FetchCall("cov", lbl, i, x))
    /\ sigma' = Accumulate(sigma, lfs.Dim, x', mean)
    /\ i' = i + 1
    /\ UNCHANGED <<pc, lfs, counts, feat, clsfr, mean, lbl, cnt, ret, iface, cvars>>

\* The division by cnt - 1 without the guard cnt > 1.
BesselAlways(s, c) == [p \in DOMAIN s |-> RDiv(s[p], FromInt(c - 1))]

\* gauss.go:144-148
Bessel(s, c) ==
    IF c > 1 THEN [p \in DOMAIN s |-> RDiv(s[p], FromInt(c - 1))] ELSE s

\* gauss.go:149-154
Mirror(s, d) ==
    [p \in DOMAIN s |->
        LET k == (p - 1) \div d
            l == (p - 1) % d
        IN  IF l < k THEN s[l * d + k + 1] ELSE s[p]]

\* gauss.go:144-154: the matrix handed to matrix.MakeDenseMatrix, which
\* wraps the buffer sigma itself.
Covariance == Mirror(Bessel(sigma, cnt), lfs.Dim)

\* The store when the mean slice is allocated once, before the label loop:
\* the entries of the labels fitted so far all alias it.
StoreSharedMean(c, l, m, prec, coef) ==
    [Means    |-> [j \in DOMAIN c.Means |-> IF j <= l + 1 THEN m ELSE c.Means[j]],
     Precs    |-> [c.Precs EXCEPT ![l + 1] = prec],
     LogCoefs |-> [c.LogCoefs EXCEPT ![l + 1] = coef]]

\* gauss.go:166-168
Store(c, l, m, prec, coef) ==
    [Means    |-> [c.Means EXCEPT ![l + 1] = m],
     Precs    |-> [c.Precs EXCEPT ![l + 1] = prec],
     LogCoefs |-> [c.LogCoefs EXCEPT ![l + 1] = coef]]

\* gauss.go:144-169: the end of the second pass when the inversion succeeds.
InvertOk ==
    /\ pc = "cov"
    /\ ~MoreSamples(i, cnt)
    /\ sigma' = Covariance
    /\ ~InverseFails(sigma', lfs.Dim)
    /\ clsfr' = Store(clsfr, lbl, mean,
                      Scale(Inverse(sigma', lfs.Dim), Rat(-1, 2)),
                      LogCoef(lfs.Dim, Det(sigma', lfs.Dim)))
    /\ lbl' = lbl + 1
    /\ pc' = "loop"
    /\ UNCHANGED <<lfs, counts, feat, calls, x, mean, cnt, i, ret, iface, cvars>>

\* A failed inversion that skips the label (continue) instead of returning.
InvertFailSkips ==
    /\ pc = "cov"
    /\ ~MoreSamples(i, cnt)
    /\ sigma' = Covariance
    /\ InverseFails(sigma', lfs.Dim)
    /\ lbl' = lbl + 1
    /\ pc' = "loop"
    /\ UNCHANGED <<lfs, counts, feat, calls, clsfr, x, mean, cnt, i, ret, iface, cvars>>

\* gauss.go:144-160: the end of the second pass when the inversion fails.
InvertFail ==
    /\ pc = "cov"
    /\ ~MoreSamples(i, cnt)
    /\ sigma' = Covariance
    /\ InverseFails(sigma', lfs.Dim)
    /\ ret' = NilPtr
    /\ pc' = "returned"
    /\ UNCHANGED <<lfs, counts, feat, calls, clsfr, x, mean, lbl, cnt, i, iface, cvars>>

\* gauss.go:171
ReturnClsfr ==
    /\ pc = "loop"
    /\ ~(lbl < Len(clsfr.Means))
    /\ ret' = ClsfrPtr
    /\ pc' = "returned"
    /\ UNCHANGED <<lfs, counts, feat, calls, clsfr, x, sigma, mean, lbl, cnt, i,
                   iface, cvars>>

\* gauss.go:175-177: when the call came through GaussianTrainer.Train, Train
\* returns GaussianTrain's pointer as a Classifier.
Train ==
    /\ pc = "returned"
    /\ iface' = ToClassifier(ret)
    /\ pc' = "done"
    /\ UNCHANGED <<lfs, counts, feat, calls, clsfr, x, sigma, mean, lbl, cnt, i,
                   ret, cvars>>

NextTrain ==
    \/ Enter
    \/ NextLabel
    \/ FetchMean
    \/ MeanDone
    \/ FetchCov
    \/ InvertOk
    \/ InvertFail
    \/ ReturnClsfr
    \/ Train

SpecTrain == InitTrain /\ [][NextTrain]_vars

\* ------------------------------------------------- GaussianClassifier

\* A panic of the Go runtime (index out of range, nil dereference).
Panic == [ok |-> FALSE, val |-> 0]

Value(v) == [ok |-> TRUE, val |-> v]

\* Whether s[k] (0-based) exists.
InRange(s, k) == 0 <= k /\ k < Len(s)

RECURSIVE Log2(_)
Log2(n) == IF n <= 1 THEN 0 ELSE 1 + Log2(n \div 2)

\* math.Log(p) in units of ln 2, for a rational p = n/d with n and d powers
\* of two: log2(n) - log2(d).
Log(p) == Log2(p[1]) - Log2(p[2])

\* gauss.go:36-43.  The slice is allocated only when LogPrior is nil; the
\* loop then writes entry after entry and panics at the first index the
\* slice does not have, leaving what it wrote.
SetPrior(g, priors) ==
    LET old == IF g.LogPrior.nil THEN [j \in 1..Len(priors) |-> 0]
               ELSE g.LogPrior.v
        new == [j \in 1..Len(old) |->
                   IF j <= Len(priors) THEN Log(priors[j]) ELSE old[j]]
    IN  [g  |-> [g EXCEPT !.LogPrior = [nil |-> FALSE, v |-> new]],
         ok |-> Len(priors) <= Len(old)]

\* gauss.go:74-80: the sum over k and l of vk * vl * prec[k*dim+l], the
\* terms numbered p = k*dim + l + 1, from term p on.
RECURSIVE QuadForm(_, _, _, _)
QuadForm(v, m, prec, p) ==
    LET dim == Len(m)
        k   == (p - 1) \div dim
        l   == (p - 1) % dim
    IN  IF p > dim * dim THEN 0
        ELSE (v[k + 1] - m[k + 1]) * (v[l + 1] - m[l + 1]) * prec[p]
             + QuadForm(v, m, prec, p + 1)

\* gauss.go:65-83.  The loops run over the mean's indices and read v[k],
\* v[l] and prec[k*dim+l]: a read past the end of a slice panics, and
\* coordinates of v beyond the mean's length are never read.
LogLikelyhood(g, label, v) ==
    IF ~(InRange(g.LogCoefs, label) /\ InRange(g.Means, label)
                                    /\ InRange(g.Precs, label))
    THEN Panic
    ELSE LET m    == g.Means[label + 1]
             prec == g.Precs[label + 1]
             dim  == Len(m)
         IN  IF dim > 0 /\ (Len(v) < dim \/ Len(prec) < dim * dim)
             THEN Panic
             ELSE Value(g.LogCoefs[label + 1] + QuadForm(v, m, prec, 1))

\* gauss.go:89-94
LogPosterior(g, label, v) ==
    LET ll == LogLikelyhood(g, label, v)
    IN  IF g.LogPrior.nil THEN ll
        ELSE IF ~ll.ok \/ ~InRange(g.LogPrior.v, label) THEN Panic
        ELSE Value(ll.val + g.LogPrior.v[label + 1])

\* The running best replaced on greater or equal.
BetterOrEqual(logP, bestLogP) == logP >= bestLogP

\* gauss.go:53: logP > bestLogP
Better(logP, bestLogP) == logP > bestLogP

\* gauss.go:50-56: the loop from label l on.
RECURSIVE ClassifyFrom(_, _, _, _, _)
ClassifyFrom(g, v, l, bestLabel, bestLogP) ==
    IF l >= Len(g.LogCoefs) THEN Value(bestLabel)
    ELSE LET logP == LogPosterior(g, l, v)
         IN  IF ~logP.ok THEN Panic
             ELSE IF bestLabel < 0 \/ Better(logP.val, bestLogP)
                  THEN ClassifyFrom(g, v, l + 1, l, logP.val)
                  ELSE ClassifyFrom(g, v, l + 1, bestLabel, bestLogP)

\* gauss.go:46-59
Classify(g, v) == ClassifyFrom(g, v, 0, -1, 0)

\* The log coefficients of the classifiers in use.
CoefVals == {-1, 0}

\* The prior probabilities callers pass.
PriorVals == {Rat(1, 1), Rat(1, 2)}

\* The means of the classifiers in use: the origin, or MaxVal on the first axis.
ModelMeans(d) == {[k \in 1..d |-> IF k = 1 THEN c ELSE 0] : c \in {0, MaxVal}}

\* The precision matrix of the classifiers in use: -(I + J), which is
\* symmetric and negative definite.
ModelPrec(d) ==
    [p \in 1..(d * d) |-> IF (p - 1) \div d = (p - 1) % d THEN -2 ELSE -1]

\* The classifiers in use: dim in 1..MaxDim, 0..MaxLabels labels, no prior.
Classifiers ==
    UNION {
        { [Means    |-> ms,
           Precs    |-> [l \in 1..n |-> ModelPrec(d)],
           LogCoefs |-> cs,
           LogPrior |-> [nil |-> TRUE, v |-> <<>>]] :
            ms \in [1..n -> ModelMeans(d)], cs \in [1..n -> CoefVals] } :
        d \in 1..MaxDim, n \in 0..MaxLabels }

\* The vectors callers pass: of every length up to MaxDim + 1.
Queries == UNION {Vectors(len) : len \in 0..(MaxDim + 1)}

\* The prior arrays callers pass: of every length up to MaxLabels + 1.
PriorArrays == UNION {[1..len -> PriorVals] : len \in 0..(MaxLabels + 1)}

\* A trainer nobody calls.
NoTrainer ==
    /\ pc = "idle"
    /\ lfs = [Dim |-> 1, LabelCount |-> 0]
    /\ counts = <<>>
    /\ feat = <<>>
    /\ calls = <<>>
    /\ clsfr = NewClassifier(0)
    /\ x = <<>>
    /\ sigma = <<>>
    /\ mean = <<>>
    /\ lbl = 0
    /\ cnt = 0
    /\ i = 0
    /\ ret = NilPtr
    /\ iface = NilInterface

\* No call is under way.
NoCall ==
    /\ op = "none"
    /\ arg = [label |-> 0, x |-> <<>>, priors |-> <<>>]
    /\ res = Value(0)

\* A classifier with no prior, before any call.
Init ==
    /\ NoTrainer
    /\ gc \in Classifiers
    /\ NoCall
    /\ priorCalled = FALSE

\* A call of gc.SetPrior(priors).
CallSetPrior ==
    /\ op = "none"
    /\ \E priors \in PriorArrays :
           /\ gc' = SetPrior(gc, priors).g
           /\ op' = "SetPrior"
           /\ arg' = [label |-> 0, x |-> <<>>, priors |-> priors]
           /\ res' = [ok |-> SetPrior(gc, priors).ok, val |-> 0]
           /\ priorCalled' = TRUE
           /\ UNCHANGED tvars

\* A call of gc.Classify(v) that also allocates the prior slice.
CallClassifyAllocating ==
    /\ op = "none"
    /\ \E v \in Queries :
           /\ op' = "Classify"
           /\ arg' = [label |-> 0, x |-> v, priors |-> <<>>]
           /\ res' = Classify(gc, v)
           /\ gc' = SetPrior(gc, [l \in 1..Len(gc.LogCoefs) |-> Rat(1, 2)]).g
           /\ UNCHANGED <<priorCalled, tvars>>

\* A call of gc.Classify(v).
CallClassify ==
    /\ op = "none"
    /\ \E v \in Queries :
           /\ op' = "Classify"
           /\ arg' = [label |-> 0, x |-> v, priors |-> <<>>]
           /\ res' = Classify(gc, v)
           /\ UNCHANGED <<gc, priorCalled, tvars>>

\* A call of gc.LogLikelyhood(label, v).
CallLogLikelyhood ==
    /\ op = "none"
    /\ \E label \in 0..(Len(gc.LogCoefs) - 1), v \in Queries :
           /\ op' = "LogLikelyhood"
           /\ arg' = [label |-> label, x |-> v, priors |-> <<>>]
           /\ res' = LogLikelyhood(gc, label, v)
           /\ UNCHANGED <<gc, priorCalled, tvars>>

\* A call of gc.LogPosterior(label, v).
CallLogPosterior ==
    /\ op = "none"
    /\ \E label \in 0..(Len(gc.LogCoefs) - 1), v \in Queries :
           /\ op' = "LogPosterior"
           /\ arg' = [label |-> label, x |-> v, priors |-> <<>>]
           /\ res' = LogPosterior(gc, label, v)
           /\ UNCHANGED <<gc, priorCalled, tvars>>

\* The caller has taken the outcome of its call.
Return ==
    /\ op # "none"
    /\ op' = "none"
    /\ arg' = [label |-> 0, x |-> <<>>, priors |-> <<>>]
    /\ res' = Value(0)
    /\ UNCHANGED <<gc, priorCalled, tvars>>

Next ==
    \/ CallSetPrior
    \/ CallClassify
    \/ CallLogLikelyhood
    \/ CallLogPosterior
    \/ Return

Spec == Init /\ [][Next]_vars

\* ------------------------------------------------- reference statistics

\* The sum of coordinate k over the samples ss.
RECURSIVE SumCoord(_, _)
SumCoord(ss, k) ==
    IF ss = <<>> THEN Zero ELSE RAdd(Head(ss)[k], SumCoord(Tail(ss), k))

\* The sample mean of ss (Len(ss) >= 1): coordinate k is the sum of the
\* samples' coordinate k divided by their number.
RefMean(ss, d) == [k \in 1..d |-> RDiv(SumCoord(ss, k), FromInt(Len(ss)))]

\* The sum over the samples ss of (v[k] - m[k]) * (v[j] - m[j]).
RECURSIVE SumProd(_, _, _, _)
SumProd(ss, m, k, j) ==
    IF ss = <<>> THEN Zero
    ELSE RAdd(RMul(RSub(Head(ss)[k], m[k]), RSub(Head(ss)[j], m[j])),
              SumProd(Tail(ss), m, k, j))

\* The unbiased sample covariance of ss (Len(ss) >= 2), every entry by its
\* definition.
RefCov(ss, d) ==
    LET m == RefMean(ss, d)
    IN  [p \in 1..(d * d) |->
            RDiv(SumProd(ss, m, ((p - 1) \div d) + 1, ((p - 1) % d) + 1),
                 FromInt(Len(ss) - 1))]

\* The model entries the samples ss of one label determine.
RefEntry(ss, d) ==
    LET cov == RefCov(ss, d)
    IN  [Mean    |-> RefMean(ss, d),
         Prec    |-> Scale(Inverse(cov, d), Rat(-1, 2)),
         LogCoef |-> LogCoef(d, Det(cov, d))]

\* The model entries of label l (0-based) in classifier c.
Entry(c, l) ==
    [Mean |-> c.Means[l + 1], Prec |-> c.Precs[l + 1], LogCoef |-> c.LogCoefs[l + 1]]

\* No entry has been stored for label l.
Unset(c, l) == Entry(c, l) = [Mean |-> <<>>, Prec |-> <<>>, LogCoef |-> ZeroCoef]

\* GaussianTrain has returned.
Returned == pc \in {"returned", "done"}

\* --------------------------------------------------------------- claims

\* C1: GaussianTrain is fail-fast and whole-model.  When it has returned and
\* the covariance matrix of the label it last worked on could not be
\* inverted, it returned nil, however many labels were fitted before; it
\* returned nil exactly when it stopped before the last label; and a
\* classifier it returns has the entries of every label.
C1_FailFast ==
    Returned =>
        /\ (counts # <<>> /\ InverseFails(sigma, lfs.Dim)) => ret = NilPtr
        /\ (ret = NilPtr) <=> (lbl < lfs.LabelCount)
        /\ ret # NilPtr =>
              \A l \in 0..(lfs.LabelCount - 1) :
                  /\ Len(clsfr.Means[l + 1]) = lfs.Dim
                  /\ Len(clsfr.Precs[l + 1]) = lfs.Dim * lfs.Dim

\* C1 witness: label 1 failed after label 0 had been fitted, and nil came back.
C1_Witness ==
    /\ pc = "returned"
    /\ ret = NilPtr
    /\ lbl = 1
    /\ ~Unset(clsfr, 0)
    /\ InverseFails(sigma, lfs.Dim)

\* C4: a label with fewer than two samples never gets model entries, and
\* once GaussianTrain has returned with such a label read, it returned nil.
C4_FewSamples ==
    \A l \in 0..(Len(counts) - 1) :
        counts[l + 1] < 2 =>
            /\ Unset(clsfr, l)
            /\ Returned => ret = NilPtr

\* C4 witness: label 1 has no sample at all, its mean is 0/0, and training
\* returned nil after label 0 had been fitted.
C4_Witness ==
    /\ pc = "returned"
    /\ Len(counts) = 2
    /\ counts[2] = 0
    /\ mean = [k \in 1..lfs.Dim |-> NaN]
    /\ ~Unset(clsfr, 0)
    /\ ret = NilPtr

\* C7 (as claimed): when training fails, the Classifier that
\* GaussianTrainer.Train returns is the nil interface, which a caller's
\* comparison with nil detects.
C7_TrainReturnsNil ==
    (pc = "done" /\ ret = NilPtr) => iface = NilInterface

\* C8: the step that ends the iteration of label lbl with a successful
\* inversion stores, for lbl, the entries that lbl's samples alone determine,
\* and leaves the entries of every other label as they were; no other step
\* of GaussianTrain changes the entries of any label.
C8_OwnEntriesOnly ==
    [][ \A l \in 0..(Len(clsfr.Means) - 1) :
            IF pc = "cov" /\ pc' = "loop" /\ l = lbl
            THEN Entry(clsfr', l) = RefEntry(feat, lfs.Dim)
            ELSE Entry(clsfr', l) = Entry(clsfr, l)
      ]_vars

\* C8 witness: two labels have been fitted, from different samples, with
\* the buffers x and sigma reused, and label 0 kept what it was given.
C8_Witness ==
    /\ pc = "loop"
    /\ lbl = 2
    /\ Entry(clsfr, 1) = RefEntry(feat, lfs.Dim)
    /\ Entry(clsfr, 0).Mean # Entry(clsfr, 1).Mean
    /\ Entry(clsfr, 0).Prec # Entry(clsfr, 1).Prec
    /\ ~Unset(clsfr, 0)

\* The second pass of a label has just ended: the inversion succeeded and the
\* loop goes on, or it failed and GaussianTrain returned.
SecondPassEnded == (pc = "loop" /\ lbl > 0) \/ (pc = "returned" /\ ret = NilPtr)

\* C9: when the second pass of a label with n >= 2 samples has ended, the
\* matrix in sigma, which was handed to the inversion, is the unbiased sample
\* covariance of that label's samples at every entry, and it is symmetric.
C9_Covariance ==
    (SecondPassEnded /\ cnt >= 2) =>
        /\ sigma = RefCov(feat, lfs.Dim)
        /\ \A k, j \in 0..(lfs.Dim - 1) :
              sigma[k * lfs.Dim + j + 1] = sigma[j * lfs.Dim + k + 1]

\* C9 witness: the second of two labels, in dimension 2, with a non-zero
\* covariance between the two coordinates.
C9_Witness ==
    /\ pc = "loop"
    /\ lbl = 2
    /\ lfs.Dim = 2
    /\ cnt >= 2
    /\ sigma[3] # Zero
    /\ sigma[3] = sigma[2]

\* C10: every FetchFeature call has a valid label, a valid index and a
\* buffer of length Dim(); the calls of a pass run through the indices in
\* order; and the second pass begins only when the first has fetched every
\* index.
C10_FetchCalls ==
    /\ \A p \in DOMAIN calls :
          /\ calls[p].label = Len(counts) - 1
          /\ 0 <= calls[p].label /\ calls[p].label < lfs.LabelCount
          /\ 0 <= calls[p].index /\ calls[p].index < counts[calls[p].label + 1]
          /\ calls[p].len = lfs.Dim
          /\ calls[p].pass = (IF p <= cnt THEN "mean" ELSE "cov")
          /\ calls[p].index = (IF p <= cnt THEN p - 1 ELSE p - 1 - cnt)
    /\ pc = "cov" => Len(calls) >= cnt
    /\ (pc \in {"loop", "returned", "done"} /\ counts # <<>>) => Len(calls) = 2 * cnt

\* C10 witness: the second label's three samples have been fetched twice.
C10_Witness ==
    /\ lbl = 1
    /\ cnt = 3
    /\ pc = "cov"
    /\ Len(calls) = 6

\* The calls that only read the classifier.
Reads == {"Classify", "LogLikelyhood", "LogPosterior"}

\* The number of labels of gc, and its dimension when it has a label.
LabelCount == Len(gc.LogCoefs)

Dim == Len(gc.Means[1])

\* C2 (as claimed): on a classifier with at least one label, a call of
\* Classify, LogLikelyhood or LogPosterior with a vector whose length is not
\* the classifier's dimension fails.
C2_MismatchFails ==
    (op \in Reads /\ LabelCount >= 1 /\ Len(arg.x) # Dim) => ~res.ok

\* C3: a Classify call that returns, returns -1 exactly when the classifier
\* has no label, and otherwise the smallest label whose LogPosterior is the
\* greatest: no label scores higher and every lower label scores lower.
C3_ArgMax ==
    (op = "Classify" /\ res.ok) =>
        /\ (res.val = -1) <=> (LabelCount = 0)
        /\ LabelCount > 0 =>
              /\ res.val \in 0..(LabelCount - 1)
              /\ \A l \in 0..(LabelCount - 1) :
                    /\ LogPosterior(gc, l, arg.x).val
                          <= LogPosterior(gc, res.val, arg.x).val
                    /\ l < res.val =>
                          LogPosterior(gc, l, arg.x).val
                             < LogPosterior(gc, res.val, arg.x).val

\* C3 witness: two labels with different means score the same on the
\* vector, priors are set, and Classify returned the lower label.
C3_Witness ==
    /\ op = "Classify"
    /\ res = Value(0)
    /\ LabelCount = 2
    /\ gc.Means[1] # gc.Means[2]
    /\ ~gc.LogPrior.nil
    /\ Len(arg.x) = Dim
    /\ LogPosterior(gc, 0, arg.x) = LogPosterior(gc, 1, arg.x)

\* C5 (as claimed): before any SetPrior call LogPosterior equals
\* LogLikelyhood; and after a SetPrior call that passed one prior per label,
\* whatever the calls before it passed, LogPrior[l] = ln(priors[l]) and
\* LogPosterior(l, v) = LogLikelyhood(l, v) + ln(priors[l]) for every label.
C5_PriorsStored ==
    /\ ~priorCalled =>
          \A l \in 0..(LabelCount - 1), v \in Queries :
              LogPosterior(gc, l, v) = LogLikelyhood(gc, l, v)
    /\ (op = "SetPrior" /\ Len(arg.priors) = LabelCount) =>
          \A l \in 0..(LabelCount - 1) :
              /\ InRange(gc.LogPrior.v, l)
              /\ gc.LogPrior.v[l + 1] = Log(arg.priors[l + 1])
              /\ \A v \in Vectors(Dim) :
                    LogPosterior(gc, l, v)
                       = Value(LogLikelyhood(gc, l, v).val + Log(arg.priors[l + 1]))

\* C6: a call of Classify, LogLikelyhood or LogPosterior leaves the
\* classifier as it was, and the label a Classify call returned is the label
\* Classify gives for the same vector on the classifier it left behind.
C6_ReadOnly ==
    [][ op' \in Reads =>
            /\ gc' = gc
            /\ op' = "Classify" => Classify(gc', arg'.x) = res'
      ]_vars

\* C6 witness: Classify has returned label 1 on a classifier with priors.
C6_Witness ==
    /\ op = "Classify"
    /\ res = Value(1)
    /\ priorCalled
    /\ ~gc.LogPrior.nil

=============================================================================
